---- MODULE Spec2Model ----
(***************************************************************************)
(* PyKNyX: the link data service (L_DataService) with its inbound worker   *)
(* and its outbound dataReq callers, and the Notifier that dispatches      *)
(* datapoint changes to functional-block handlers.                         *)
(*                                                                         *)
(* PriorityQueue and Transmission are modules of the repository whose      *)
(* source is not available; they are modelled from the specification       *)
(* (section 3 "Priority queue", "Transmission envelope", section 5).       *)
(***************************************************************************)
EXTENDS Integers, Sequences, FiniteSets, TLC

None == "None"

(***************************************************************************)
(* Bounds of the model.                                                    *)
(***************************************************************************)
MaxIn == 3          \* frames put on the inbound queue in the link specification
MaxQLen == 4        \* per-class cap of the inbound queue in the queue specification
NCallers == 2       \* threads calling dataReq, one call each

\* Individual addresses: the code only compares them, so two values suffice.
Addrs == {0, 1}

(***************************************************************************)
(* Records list their fields in the order the model checker keeps them,   *)
(* the order in which the names first occur in this module.               *)
(*                                                                         *)
(* Priority classes, highest first (spec section 3): system, urgent,       *)
(* normal, low.  A distribution is a vector of four non-negative weights.  *)
(***************************************************************************)
System == 1
Urgent == 2
Normal == 3
Low == 4
Classes == {System, Urgent, Normal, Low}

MC_LDATA_REQ == "L_Data.req"
MC_LDATA_CON == "L_Data.con"
MC_LDATA_IND == "L_Data.ind"
MessageCodes == {MC_LDATA_REQ, MC_LDATA_CON, MC_LDATA_IND}

(***************************************************************************)
(* PriorityQueue (spec-modelled): four FIFO sub-queues and a distribution  *)
(* vector; per round, distribution[c] items are drained from class c, in   *)
(* the order system, urgent, normal, low; an empty class yields its turn.  *)
(* cur is the class whose turn it is, left what remains of its share.      *)
(***************************************************************************)
PriorityQueue(distribution) ==
    [ distribution |-> distribution,
      queues |-> [c \in Classes |-> <<>>],
      cur |-> System,
      left |-> distribution[System] ]

PQAdd(pq, item, priority) ==
    [pq EXCEPT !.queues[priority] = Append(@, item)]

\* remove() blocks until an item is available: a class that holds an item and
\* has a share of the round.
PQCanRemove(pq) ==
    \E c \in Classes : pq.distribution[c] > 0 /\ pq.queues[c] # <<>>

NextClass(c) == IF c = Low THEN System ELSE c + 1

RECURSIVE PQScan(_, _, _, _)
PQScan(pq, cur, left, wrapped) ==
    IF left > 0 /\ pq.queues[cur] # <<>>
    THEN [left |-> left - 1, wrapped |-> wrapped, cls |-> cur]
    ELSE PQScan(pq, NextClass(cur), pq.distribution[NextClass(cur)],
                wrapped \/ cur = Low)

\* The item remove() returns, the queue it leaves, and whether the scan passed
\* a round boundary (from low back to system) to find the item.
PQRemove(pq) ==
    LET s == PQScan(pq, pq.cur, pq.left, FALSE) IN
    [ item |-> Head(pq.queues[s.cls]),
      wrapped |-> s.wrapped,
      queue |-> [pq EXCEPT !.queues[s.cls] = Tail(@), !.cur = s.cls, !.left = s.left] ]

PQSize(pq) ==
    Len(pq.queues[System]) + Len(pq.queues[Urgent])
        + Len(pq.queues[Normal]) + Len(pq.queues[Low])

(***************************************************************************)
(* State of the link data service.                                         *)
(***************************************************************************)
VARIABLES
    individualAddress,  \* L_DataService._individualAddress
    inQueue,            \* L_DataService._inQueue
    outQueue,           \* L_DataService._outQueue
    ldl,                \* L_DataService._ldl: None, or the listener
    running,            \* L_DataService._running
    pc,                 \* position of the worker thread in run()
    cEMI,               \* run(): the frame the worker took from the inbound queue
    upcall,             \* outcome of the worker's last pass through the loop body
    trans,              \* dataReq(): each caller's Transmission
    cpc,                \* position of each dataReq caller
    ret,                \* what each dataReq call returned
    txFrame             \* what the last getOutFrame() returned

\* History variables (not program state).
VARIABLES
    nPut,               \* number of frames put so far (numbers the frames)
    indications,        \* the frames passed to the listener's dataInd, in order
    processed,          \* the frames the worker has taken and handled, in order
    sent,               \* the callers whose Transmission getOutFrame returned
    acked,              \* the callers whose Transmission was confirmed
    given,              \* the frame each caller passed to dataReq
    added,              \* the callers whose Transmission was added to the outbound
                        \* queue, in the order of the adds
    scen,               \* progress through the one-item-per-class scenario
    getLog,             \* classes dequeued during that scenario
    winGot,             \* per class, dequeues in the current round
    winOk               \* no class was empty at a dequeue of the current round

\* History of the stop() calls on the link data service.
VARIABLES
    stopCalled          \* stop() was called after start() had returned

\* State of the Notifier (a singleton), and what its last call did.
VARIABLES
    pendingFuncs,       \* Notifier._pendingFuncs
    datapointJobs,      \* Notifier._datapointJobs
    lastCall,           \* the last Notifier call made: its name and arguments
    error,              \* the exception the last Notifier call raised to its caller
    notifyArgs,         \* arguments of the datapointNotify call, if it was the last call
    invoked,            \* the (method, event) calls that datapointNotify call made, in order
    exceptions          \* the exceptions that datapointNotify call logged, in order

\* State of a DeviceRunner, and what its calls did.
VARIABLES
    device,             \* DeviceRunner._device: None, or the device created
    runs                \* the check() and run() calls made so far, each with its
                        \* arguments, the calls it made in order, the exception
                        \* it raised to its caller and what it logged

\* What the calls on a MulticastSocketTransmit did.
VARIABLES
    sends,              \* the transmit() calls made so far, each as <<len(data),
                        \* bytes sendto reported (-1: it raised), exception raised>>
    receives            \* the receive() calls made so far, each as <<what
                        \* recvfrom did, value returned, exception raised>>

linkVars == <<individualAddress, inQueue, outQueue, ldl, running, pc, cEMI, upcall,
              trans, cpc, ret, txFrame>>
histVars == <<nPut, indications, processed, sent, acked, given, added>>
pqVars == <<scen, getLog, winGot, winOk>>
notVars == <<pendingFuncs, datapointJobs, lastCall, error, notifyArgs, invoked,
            exceptions>>

runVars == <<device, runs>>

sockVars == <<sends, receives>>

stopVars == <<stopCalled>>

\* The variables of the components other than the link data service, other
\* than the Notifier, other than the DeviceRunner and other than the sockets.
otherThanLink == <<notVars, runVars, sockVars, stopVars>>
otherThanNotifier == <<linkVars, histVars, pqVars, runVars, sockVars, stopVars>>
otherThanRunner == <<linkVars, histVars, pqVars, notVars, sockVars, stopVars>>
otherThanSocket == <<linkVars, histVars, pqVars, notVars, runVars, stopVars>>

Listener == "ldl"

\* A cEMI frame, as far as the link layer reads it; id tells frames apart.
Frame(src, mc, priority, id) ==
    [priority |-> priority, id |-> id, sourceAddress |-> src, messageCode |-> mc]

\* No frame: the value of a frame variable that holds none.
NoFrame == [priority |-> 0, id |-> 0, sourceAddress |-> -1, messageCode |-> "none"]

(***************************************************************************)
(* L_DataService.__init__                                                  *)
(***************************************************************************)
LinkInit(priorityDistribution, addr) ==
    /\ individualAddress = addr
    /\ inQueue = PriorityQueue(priorityDistribution)
    /\ outQueue = PriorityQueue(priorityDistribution)
    /\ ldl = None
    /\ running = FALSE
    /\ pc = "new"
    /\ cEMI = NoFrame
    /\ upcall = [frame |-> NoFrame, did |-> "nothing", logged |-> FALSE]

(***************************************************************************)
(* L_DataService.setListener                                               *)
(***************************************************************************)
SetListener(l) ==
    /\ ldl' = l
    /\ UNCHANGED <<individualAddress, inQueue, outQueue, running, pc, cEMI, upcall,
                   trans, cpc, ret, txFrame>>

(***************************************************************************)
(* L_DataService.putInFrame: the frame goes to the inbound queue under its *)
(* own priority.                                                           *)
(***************************************************************************)
putInFrame_Reversed(queue, frame) == PQAdd(queue, frame, 5 - frame.priority)

putInFrame_Front(queue, frame) ==
    [queue EXCEPT !.queues[frame.priority] = <<frame>> \o @]

putInFrame(queue, frame) == PQAdd(queue, frame, frame.priority)

PutInFrame(frame) ==
    /\ inQueue' = putInFrame(inQueue, frame)
    /\ UNCHANGED <<individualAddress, outQueue, ldl, running, pc, cEMI, upcall,
                   trans, cpc, ret, txFrame>>

(***************************************************************************)
(* The worker thread: Thread.start(), then run().                          *)
(***************************************************************************)
Start ==
    /\ pc = "new"
    /\ pc' = "started"
    /\ UNCHANGED <<individualAddress, inQueue, outQueue, ldl, running, cEMI, upcall,
                   trans, cpc, ret, txFrame>>

\* run(), line 178: self._running = True
RunBegin ==
    /\ pc = "started"
    /\ running' = TRUE
    /\ pc' = "head"
    /\ UNCHANGED <<individualAddress, inQueue, outQueue, ldl, cEMI, upcall,
                   trans, cpc, ret, txFrame>>

\* run(), line 179: while self._running
RunHead ==
    /\ pc = "head"
    /\ pc' = IF running THEN "remove" ELSE "ended"
    /\ UNCHANGED <<individualAddress, inQueue, outQueue, ldl, running, cEMI, upcall,
                   trans, cpc, ret, txFrame>>

\* run(), line 183: cEMI = self._inQueue.remove(), which blocks while there is
\* nothing to remove.
RunRemove ==
    /\ pc = "remove"
    /\ PQCanRemove(inQueue)
    /\ cEMI' = PQRemove(inQueue).item
    /\ inQueue' = PQRemove(inQueue).queue
    /\ pc' = "body"
    /\ UNCHANGED <<individualAddress, outQueue, ldl, running, upcall,
                   trans, cpc, ret, txFrame>>

\* run(), lines 186-192: what the loop body does with the frame: "dataInd" when
\* it calls the listener's dataInd, "warning" when there is no listener, "drop"
\* otherwise.
runBody_NoLoopCheck(frame, addr, listener) ==
    IF frame.messageCode = MC_LDATA_IND
    THEN IF listener = None THEN "warning" ELSE "dataInd"
    ELSE "drop"

runBody_AnyCode(frame, addr, listener) ==
    IF frame.sourceAddress # addr
    THEN IF listener = None THEN "warning" ELSE "dataInd"
    ELSE "drop"

runBody_ConOnly(frame, addr, listener) ==
    IF frame.sourceAddress # addr
    THEN IF frame.messageCode = MC_LDATA_CON
         THEN IF listener = None THEN "warning" ELSE "dataInd"
         ELSE "drop"
    ELSE "drop"

runBody(frame, addr, listener) ==
    IF frame.sourceAddress # addr
    THEN IF frame.messageCode = MC_LDATA_IND
         THEN IF listener = None THEN "warning" ELSE "dataInd"
         ELSE "drop"
    ELSE "drop"

\* run(), lines 186-195: the loop body. dataInd may raise; the except clause
\* logs whatever the body raised and the loop goes on.
RunBody_Unguarded(raises) ==
    /\ pc = "body"
    /\ upcall' = [frame |-> cEMI,
                  did |-> runBody(cEMI, individualAddress, ldl),
                  logged |-> FALSE]
    /\ cEMI' = NoFrame
    /\ pc' = IF raises /\ runBody(cEMI, individualAddress, ldl) = "dataInd"
             THEN "ended"
             ELSE "head"
    /\ UNCHANGED <<individualAddress, inQueue, outQueue, ldl, running,
                   trans, cpc, ret, txFrame>>

RunBody(raises) ==
    /\ pc = "body"
    /\ upcall' = [frame |-> cEMI,
                  did |-> runBody(cEMI, individualAddress, ldl),
                  logged |-> raises /\ runBody(cEMI, individualAddress, ldl) = "dataInd"]
    /\ cEMI' = NoFrame
    /\ pc' = "head"
    /\ UNCHANGED <<individualAddress, inQueue, outQueue, ldl, running,
                   trans, cpc, ret, txFrame>>

(***************************************************************************)
(* L_DataService.stop                                                      *)
(***************************************************************************)
Stop ==
    /\ running' = FALSE
    /\ UNCHANGED <<individualAddress, inQueue, outQueue, ldl, pc, cEMI, upcall,
                   trans, cpc, ret, txFrame>>

(***************************************************************************)
(* Transmission (spec-modelled): an outbound frame with a confirmation     *)
(* latch, a result and a lock. wait() releases the lock and returns once   *)
(* the latch is resolved, by a confirmation or by the confirm timeout.     *)
(***************************************************************************)
Transmission(frame) ==
    [frame |-> frame, waitConfirm |-> TRUE, result |-> "pending", owner |-> "free"]

NoTransmission ==
    [frame |-> NoFrame, waitConfirm |-> FALSE, result |-> "pending", owner |-> "free"]

TransAcquire(t) == [t EXCEPT !.owner = "caller"]

TransRelease(t) == [t EXCEPT !.owner = "free"]

\* A confirmation resolves the latch with ok; the transmit side takes the
\* lock to do so, so the caller must be inside wait().
TransConfirm(t) == [t EXCEPT !.waitConfirm = FALSE, !.result = "ok"]

\* The confirm timeout resolves the latch with timeout.
TransTimeout(t) == [t EXCEPT !.waitConfirm = FALSE, !.result = "timeout"]

(***************************************************************************)
(* L_DataService.dataReq, one action per step of a calling thread.         *)
(***************************************************************************)
\* line 157: cEMI.sourceAddress = self._individualAddress
dataReqStamp_Keep(frame, addr) == frame

dataReqStamp(frame, addr) == [frame EXCEPT !.sourceAddress = addr]

\* lines 157-162: stamp the frame, wrap it and take the Transmission's lock.
DataReqBegin(c, frame) ==
    /\ cpc[c] = "idle"
    /\ trans' = [trans EXCEPT
                   ![c] = TransAcquire(Transmission(dataReqStamp(frame, individualAddress)))]
    /\ cpc' = [cpc EXCEPT ![c] = "add"]
    /\ UNCHANGED <<individualAddress, inQueue, outQueue, ldl, running, pc, cEMI, upcall,
                   ret, txFrame>>

\* line 164: self._outQueue.add(transmission, priority)
DataReqAdd_Twice(c) ==
    /\ cpc[c] = "add"
    /\ outQueue' = PQAdd(PQAdd(outQueue, c, trans[c].frame.priority),
                         c, trans[c].frame.priority)
    /\ cpc' = [cpc EXCEPT ![c] = "check"]
    /\ UNCHANGED <<individualAddress, inQueue, ldl, running, pc, cEMI, upcall,
                   trans, ret, txFrame>>

DataReqAdd(c) ==
    /\ cpc[c] = "add"
    /\ outQueue' = PQAdd(outQueue, c, trans[c].frame.priority)
    /\ cpc' = [cpc EXCEPT ![c] = "check"]
    /\ UNCHANGED <<individualAddress, inQueue, ldl, running, pc, cEMI, upcall,
                   trans, ret, txFrame>>

\* lines 166-167: while transmission.waitConfirm: transmission.wait()
DataReqCheck(c) ==
    /\ cpc[c] = "check"
    /\ IF trans[c].waitConfirm
       THEN /\ cpc' = [cpc EXCEPT ![c] = "wait"]
            /\ trans' = [trans EXCEPT ![c] = TransRelease(@)]
       ELSE /\ cpc' = [cpc EXCEPT ![c] = "release"]
            /\ UNCHANGED trans
    /\ UNCHANGED <<individualAddress, inQueue, outQueue, ldl, running, pc, cEMI, upcall,
                   ret, txFrame>>

\* line 167: wait() returns, holding the lock again.
DataReqWake(c) ==
    /\ cpc[c] = "wait"
    /\ ~trans[c].waitConfirm
    /\ trans[c].owner = "free"
    /\ trans' = [trans EXCEPT ![c] = TransAcquire(@)]
    /\ cpc' = [cpc EXCEPT ![c] = "check"]
    /\ UNCHANGED <<individualAddress, inQueue, outQueue, ldl, running, pc, cEMI, upcall,
                   ret, txFrame>>

\* line 164 or line 167 raises: the exception is under way (ret[c] notes it)
\* and control goes to the finally clause. wait() holds the lock again when
\* it raises.
DataReqAddRaises(c) ==
    /\ cpc[c] = "add"
    /\ ret' = [ret EXCEPT ![c] = "raising"]
    /\ cpc' = [cpc EXCEPT ![c] = "release"]
    /\ UNCHANGED <<individualAddress, inQueue, outQueue, ldl, running, pc, cEMI, upcall,
                   trans, txFrame>>

DataReqWaitRaises(c) ==
    /\ cpc[c] = "wait"
    /\ trans[c].owner = "free"
    /\ trans' = [trans EXCEPT ![c] = TransAcquire(@)]
    /\ ret' = [ret EXCEPT ![c] = "raising"]
    /\ cpc' = [cpc EXCEPT ![c] = "release"]
    /\ UNCHANGED <<individualAddress, inQueue, outQueue, ldl, running, pc, cEMI, upcall,
                   txFrame>>

\* lines 168-169: finally: transmission.release()
DataReqRelease_Skip(c) ==
    /\ cpc[c] = "release"
    /\ cpc' = [cpc EXCEPT ![c] = "return"]
    /\ UNCHANGED <<individualAddress, inQueue, outQueue, ldl, running, pc, cEMI, upcall,
                   trans, ret, txFrame>>

DataReqRelease(c) ==
    /\ cpc[c] = "release"
    /\ trans' = [trans EXCEPT ![c] = TransRelease(@)]
    /\ cpc' = [cpc EXCEPT ![c] = "return"]
    /\ UNCHANGED <<individualAddress, inQueue, outQueue, ldl, running, pc, cEMI, upcall,
                   ret, txFrame>>

\* line 171: return transmission.result, unless an exception is under way,
\* which then leaves the call.
dataReqResult_Ok(t) == "ok"

dataReqResult(t) == t.result

DataReqReturn(c) ==
    /\ cpc[c] = "return"
    /\ ret' = [ret EXCEPT ![c] = IF ret[c] = "raising" THEN "raised"
                                 ELSE dataReqResult(trans[c])]
    /\ cpc' = [cpc EXCEPT ![c] = "done"]
    /\ UNCHANGED <<individualAddress, inQueue, outQueue, ldl, running, pc, cEMI, upcall,
                   trans, txFrame>>

(***************************************************************************)
(* L_DataService.getOutFrame, called by the transmit thread.               *)
(***************************************************************************)
GetOutFrame ==
    /\ PQCanRemove(outQueue)
    /\ txFrame' = PQRemove(outQueue).item
    /\ outQueue' = PQRemove(outQueue).queue
    /\ UNCHANGED <<individualAddress, inQueue, ldl, running, pc, cEMI, upcall,
                   trans, cpc, ret>>

\* The transmit side confirms a Transmission it took (spec-modelled).
Confirm(c) ==
    /\ trans[c].waitConfirm
    /\ trans[c].owner = "free"
    /\ trans' = [trans EXCEPT ![c] = TransConfirm(@)]
    /\ UNCHANGED <<individualAddress, inQueue, outQueue, ldl, running, pc, cEMI, upcall,
                   cpc, ret, txFrame>>

\* The confirm timeout of a Transmission being waited on elapses (spec-modelled).
Timeout(c) ==
    /\ cpc[c] = "wait"
    /\ trans[c].waitConfirm
    /\ trans' = [trans EXCEPT ![c] = TransTimeout(@)]
    /\ UNCHANGED <<individualAddress, inQueue, outQueue, ldl, running, pc, cEMI, upcall,
                   cpc, ret, txFrame>>

(***************************************************************************)
(* The Notifier.  Functions are written <<class, name>>, the function of   *)
(* that name defined in the body of that class; functional blocks are      *)
(* instances of these classes.  Python tuples are tuples, dicts are        *)
(* functions on their keys.                                                *)
(***************************************************************************)
MaxPending == 2
MaxJobs == 3

Funcs == {<<"A", "h">>, <<"A", "g">>, <<"B", "h">>}
Objs == {"a1", "b1"}
Instances == {"a1", "a2", "b1"}
DPs == {"dp1", "dp2"}
Values == {0, 1}
Conditions == {"change", "always", "never"}

ClassOf(obj) == IF obj \in {"a1", "a2"} THEN "A" ELSE "B"

func_name(func) == func[2]

NoMethod == <<None, <<None, None>>>>

\* getattr(obj, name, None): the method of that name bound to obj.
getattr(obj, name) ==
    IF <<ClassOf(obj), name>> \in Funcs
    THEN <<obj, <<ClassOf(obj), name>>>>
    ELSE NoMethod

meth_self(method) == method[1]

meth_func(method) == method[2]

EmptyDict == [k \in {} |-> <<>>]

DictSet(d, key, value) ==
    [k \in DOMAIN d \cup {key} |-> IF k = key THEN value ELSE d[k]]

NotifierInit ==
    /\ pendingFuncs = <<>>
    /\ datapointJobs = EmptyDict
    /\ lastCall = <<>>
    /\ error = "none"
    /\ notifyArgs = <<>>
    /\ invoked = <<>>
    /\ exceptions = <<>>

\* addDatapointJob without the test of its condition.
AddDatapointJob_NoCheck(func, dp, condition, thread) ==
    /\ Len(pendingFuncs) < MaxPending
    /\ error' = "none"
    /\ pendingFuncs' =
           Append(pendingFuncs, <<"datapoint", func, <<dp, condition, thread>>>>)
    /\ lastCall' = <<"addDatapointJob", func, dp, condition, thread>>
    /\ notifyArgs' = <<>>
    /\ invoked' = <<>>
    /\ exceptions' = <<>>
    /\ UNCHANGED datapointJobs

\* Notifier.addDatapointJob, and the datapoint decorator that calls it.
AddDatapointJob(func, dp, condition, thread) ==
    /\ Len(pendingFuncs) < MaxPending
    /\ IF condition \notin {"change", "always"}
       THEN /\ error' = "NotifierValueError"
            /\ UNCHANGED pendingFuncs
       ELSE /\ error' = "none"
            /\ pendingFuncs' =
                   Append(pendingFuncs, <<"datapoint", func, <<dp, condition, thread>>>>)
    /\ lastCall' = <<"addDatapointJob", func, dp, condition, thread>>
    /\ notifyArgs' = <<>>
    /\ invoked' = <<>>
    /\ exceptions' = <<>>
    /\ UNCHANGED datapointJobs

\* Notifier.doRegisterJobs: the append to self._datapointJobs[obj][dp].
appendJob(jobs, obj, dp, job) ==
    IF obj \in DOMAIN jobs
    THEN IF dp \in DOMAIN jobs[obj]
         THEN [jobs EXCEPT ![obj][dp] = Append(@, job)]
         ELSE [jobs EXCEPT ![obj] = DictSet(@, dp, <<job>>)]
    ELSE DictSet(jobs, obj, DictSet(EmptyDict, dp, <<job>>))

\* The attribute found is taken whatever function is behind it.
resolves_ByName(method, func) == method # NoMethod

\* Notifier.doRegisterJobs, lines 212 and 215: the attribute of obj found
\* under the function's name is a method of that very function.
resolves(method, func) == method # NoMethod /\ meth_func(method) = func

\* Notifier.doRegisterJobs: the loop over self._pendingFuncs, from entry i on.
RECURSIVE registerFrom(_, _, _, _)
registerFrom(jobs, obj, pending, i) ==
    IF i > Len(pending)
    THEN jobs
    ELSE LET type_ == pending[i][1]
             func == pending[i][2]
             args == pending[i][3]
             method == getattr(obj, func_name(func))
         IN  registerFrom(
                 IF resolves(method, func) /\ type_ = "datapoint"
                 THEN appendJob(jobs, obj, args[1], <<method, args[2], args[3]>>)
                 ELSE jobs,
                 obj, pending, i + 1)

\* The handlers kept for dp under whichever instance has some.
jobsFor_AnyInstance(jobs, obj, dp) ==
    IF \E o \in DOMAIN jobs : dp \in DOMAIN jobs[o]
    THEN jobs[CHOOSE o \in DOMAIN jobs : dp \in DOMAIN jobs[o]][dp]
    ELSE <<>>

\* Notifier.datapointNotify: the handlers kept for (obj, dp), none if either
\* key is missing.
jobsFor(jobs, obj, dp) ==
    IF obj \in DOMAIN jobs
    THEN IF dp \in DOMAIN jobs[obj] THEN jobs[obj][dp] ELSE <<>>
    ELSE <<>>

DoRegisterJobs(obj) ==
    /\ \A dp \in DPs :
          Len(jobsFor(registerFrom(datapointJobs, obj, pendingFuncs, 1), obj, dp)) <= MaxJobs
    /\ datapointJobs' = registerFrom(datapointJobs, obj, pendingFuncs, 1)
    /\ lastCall' = <<"doRegisterJobs", obj>>
    /\ error' = "none"
    /\ notifyArgs' = <<>>
    /\ invoked' = <<>>
    /\ exceptions' = <<>>
    /\ UNCHANGED pendingFuncs

\* Notifier.datapointNotify: the test a handler's condition must pass.
conditionHolds(condition, oldValue, newValue) ==
    (oldValue # newValue /\ condition = "change") \/ condition = "always"

Event(dp, oldValue, newValue, condition, thread_) ==
    [name |-> "datapoint", dp |-> dp, condition |-> condition, thread |-> thread_,
     oldValue |-> oldValue, newValue |-> newValue]

\* The module binds no name "thread" (it imports six, PyKNyXValueError,
\* reprStr, func_name, meth_name, meth_self, meth_func, Singleton and logging
\* only): evaluating thread.start_new_thread raises NameError.
ModuleNames == {"six", "PyKNyXValueError", "reprStr", "func_name", "meth_name",
                "meth_self", "meth_func", "Singleton", "logging", "logger",
                "scheduler", "NotifierValueError", "Notifier"}

\* Notifier._execute: the call of the handler, and the exception logged if it
\* raises; on tells the thread it runs on, the caller of datapointNotify or a
\* worker of its own.  Yields <<calls made, exceptions logged>>.
execute(method, event, raising, on) ==
    <<<< <<method, event, on>> >>,
      IF meth_func(method) \in raising THEN <<"Notifier._execute()">> ELSE <<>>>>

\* Notifier.datapointNotify: the body of the try statement for one handler
\* whose condition holds.
trigger(method, event, thread_, raising) ==
    IF thread_
    THEN IF "thread" \in ModuleNames
         THEN execute(method, event, raising, "worker")
         ELSE <<<<>>, <<"Notifier.datapointNotify()">>>>
    ELSE execute(method, event, raising, "caller")

\* Notifier.datapointNotify: the loop over the handlers, from entry i on.
RECURSIVE notifyFrom(_, _, _, _, _, _)
notifyFrom(jobs, i, dp, oldValue, newValue, raising) ==
    IF i > Len(jobs)
    THEN <<<<>>, <<>>>>
    ELSE LET method == jobs[i][1]
             condition == jobs[i][2]
             thread_ == jobs[i][3]
             this == IF conditionHolds(condition, oldValue, newValue)
                     THEN trigger(method, Event(dp, oldValue, newValue, condition, thread_),
                                  thread_, raising)
                     ELSE <<<<>>, <<>>>>
             rest == notifyFrom(jobs, i + 1, dp, oldValue, newValue, raising)
         IN  <<this[1] \o rest[1], this[2] \o rest[2]>>

\* raising: the functions that raise when called with this event.
DatapointNotify(obj, dp, oldValue, newValue, raising) ==
    LET done == notifyFrom(jobsFor(datapointJobs, obj, dp), 1, dp, oldValue, newValue,
                           raising)
    IN  /\ lastCall' = <<"datapointNotify", obj, dp, oldValue, newValue>>
        /\ notifyArgs' = <<obj, dp, oldValue, newValue>>
        /\ invoked' = done[1]
        /\ exceptions' = done[2]
        /\ error' = "none"
        /\ UNCHANGED <<pendingFuncs, datapointJobs>>

(***************************************************************************)
(* The DeviceRunner.  check() and run() are sequences of calls on the      *)
(* device, the ETS registry and the Scheduler; the outcome of such a       *)
(* sequence is <<calls made, exception raised, messages logged>>, and a    *)
(* call is made only while no exception is under way.  raising is the set  *)
(* of calls that raise when made.                                          *)
(***************************************************************************)
MaxRuns == 2

Steps == {"DEVICE", "ets.register", "ets.weave", "ets.getGrOAT", "_doubleFork",
          "device.start", "Scheduler.start", "device.mainLoop",
          "Scheduler.stop", "device.stop", "device.shutdown"}

\* The names the module deviceRunner binds: its imports and its classes.
RunnerNames == {"os", "imp", "sys", "time", "config", "PKNyXValueError", "logging",
                "logger", "Scheduler", "GroupAddressTableMapper", "ETS",
                "IndividualAddress", "GroupAddress", "GroupAddressValueError",
                "DeviceRunnerValueError", "DeviceRunner"}

RunnerInit ==
    /\ device = None
    /\ runs = <<>>

NoCalls == <<<<>>, "none", <<>>>>

call(outcome, step, raising) ==
    IF outcome[2] # "none"
    THEN outcome
    ELSE <<Append(outcome[1], step),
           IF step \in raising THEN "raised" ELSE "none",
           outcome[3]>>

\* Evaluating a global name: NameError unless the module binds it.
lookup(outcome, name) ==
    IF outcome[2] # "none" \/ name \in RunnerNames
    THEN outcome
    ELSE <<outcome[1], "NameError", outcome[3]>>

\* DeviceRunner.check
check(printGroat, raising) ==
    LET created == call(NoCalls, "DEVICE", raising)
        registered == call(lookup(created, "ets"), "ets.register", raising)
        woven == call(lookup(registered, "ets"), "ets.weave", raising)
    IN  IF printGroat
        THEN call(call(lookup(woven, "ets"), "ets.getGrOAT", raising),
                  "ets.getGrOAT", raising)
        ELSE woven

\* DeviceRunner.run, lines 171-178: the try statement around mainLoop; both
\* except clauses log and swallow what mainLoop raised.
mainLoop(outcome, raising, interrupt) ==
    LET looped == call(outcome, "device.mainLoop", raising)
    IN  IF looped[2] = "none"
        THEN looped
        ELSE <<looped[1], "none",
               Append(looped[3], IF interrupt THEN "Device execution canceled (SIGTERM)"
                                              ELSE "deviceRunner.run()")>>

\* DeviceRunner.run, lines 180-183: the finally clause.
teardown(outcome, raising) ==
    call(call(call(outcome, "Scheduler.stop", raising), "device.stop", raising),
         "device.shutdown", raising)

run_CheckGuarded(daemon, raising, interrupt) ==
    LET checked == check(FALSE, raising)
        forked == IF daemon THEN call(checked, "_doubleFork", raising) ELSE checked
        started == call(call(forked, "device.start", raising), "Scheduler.start", raising)
    IN  IF checked[2] # "none"
        THEN teardown(mainLoop(<<checked[1], "none", checked[3]>>, raising, interrupt),
                      raising)
        ELSE IF started[2] # "none"
        THEN started
        ELSE teardown(mainLoop(started, raising, interrupt), raising)

\* DeviceRunner.run
run(daemon, raising, interrupt) ==
    LET checked == check(FALSE, raising)
        forked == IF daemon THEN call(checked, "_doubleFork", raising) ELSE checked
        started == call(call(forked, "device.start", raising), "Scheduler.start", raising)
    IN  IF started[2] # "none"
        THEN started
        ELSE teardown(mainLoop(started, raising, interrupt), raising)

\* line 148: self._device is bound once DEVICE(...) has returned.
created(raising) == IF "DEVICE" \in raising THEN device ELSE "DEVICE"

Check(printGroat, raising) ==
    /\ Len(runs) < MaxRuns
    /\ device' = created(raising)
    /\ runs' = Append(runs, <<"check", printGroat, raising, FALSE>>
                            \o check(printGroat, raising))

Run(daemon, raising, interrupt) ==
    /\ Len(runs) < MaxRuns
    /\ device' = created(raising)
    /\ runs' = Append(runs, <<"run", daemon, raising, interrupt>>
                            \o run(daemon, raising, interrupt))

(***************************************************************************)
(* MulticastSocketTransmit.  sendto reports the number of bytes it sent,   *)
(* at most len(data), or raises.                                           *)
(***************************************************************************)
MaxData == 3
MaxSends == 2
MaxReceives == 2

SocketInit == sends = <<>> /\ receives = <<>>

\* MulticastSocketTransmit.transmit, line 177: the exception raised for the
\* count l that sendto reported.
transmit(data, l) == IF l > 0 /\ l < data THEN "IOError" ELSE "none"

\* transmit(data) for data of the given length, sendto reporting l bytes.
Transmit(data, l) ==
    /\ Len(sends) < MaxSends
    /\ sends' = Append(sends, <<data, l, transmit(data, l)>>)
    /\ UNCHANGED receives

\* transmit(data), sendto raising: the exception leaves transmit.
TransmitRaises(data) ==
    /\ Len(sends) < MaxSends
    /\ sends' = Append(sends, <<data, -1, "socket.error">>)
    /\ UNCHANGED receives

(***************************************************************************)
(* MulticastSocketReceive.  The constructor sets the socket's timeout      *)
(* (line 142), so recvfrom either returns a datagram of up to 1024 bytes   *)
(* with its sender, or raises socket.timeout when none arrived in time, or *)
(* raises socket.error.  A datagram is modelled by its length.             *)
(***************************************************************************)
NoRead == <<-1, "nobody">>

RecvOutcomes ==
    {<<"datagram", n>> : n \in 0..MaxData} \cup {<<"socket.timeout", -1>>, <<"socket.error", -1>>}

\* MulticastSocketReceive.receive, line 154: <<value returned, exception
\* raised>> for what recvfrom did. The statement is a bare return of the
\* call, so an exception of recvfrom leaves receive() as it is.
receive(recvfrom) ==
    IF recvfrom[1] = "datagram"
    THEN <<(<<recvfrom[2], "sender">>), "none">>
    ELSE <<NoRead, recvfrom[1]>>

\* One receive() call.
Receive(recvfrom) ==
    /\ Len(receives) < MaxReceives
    /\ receives' = Append(receives, <<recvfrom[1]>> \o receive(recvfrom))
    /\ UNCHANGED sends

(***************************************************************************)
(* The link specification: frames arrive through putInFrame while the      *)
(* worker runs, the listener is set or cleared, and stop() is called.      *)
(***************************************************************************)
LinkClasses == {System, Low}
LinkCodes == MessageCodes
LinkDistributions == {<<4, 3, 2, 1>>, <<1, 0, 0, 0>>}
OwnAddress == 0
ForeignAddress == 1

NoCallers ==
    /\ trans = <<>>
    /\ cpc = <<>>
    /\ ret = <<>>
    /\ txFrame = 0

NoStop == stopCalled = FALSE

NoHistory ==
    /\ nPut = 0
    /\ indications = <<>>
    /\ processed = <<>>
    /\ sent = <<>>
    /\ acked = {}
    /\ given = <<>>
    /\ added = <<>>

NoScenario ==
    /\ scen = 0
    /\ getLog = <<>>
    /\ winGot = <<>>
    /\ winOk = FALSE

Init ==
    /\ \E d \in LinkDistributions : LinkInit(d, OwnAddress)
    /\ NotifierInit
    /\ RunnerInit
    /\ SocketInit
    /\ NoStop
    /\ NoCallers
    /\ NoHistory
    /\ NoScenario

LPut(src, mc, priority) ==
    /\ nPut < MaxIn
    /\ PutInFrame(Frame(src, mc, priority, nPut + 1))
    /\ nPut' = nPut + 1
    /\ UNCHANGED <<indications, processed, sent, acked, given, added>>
    /\ UNCHANGED <<pqVars, otherThanLink>>

LBody(raises) ==
    /\ RunBody(raises)
    /\ processed' = Append(processed, cEMI)
    /\ indications' = IF upcall'.did = "dataInd"
                       THEN Append(indications, cEMI)
                       ELSE indications
    /\ UNCHANGED <<nPut, sent, acked, given, added>>
    /\ UNCHANGED <<pqVars, otherThanLink>>

LSetListener(l) ==
    /\ ldl # l
    /\ SetListener(l)
    /\ UNCHANGED <<histVars, pqVars, otherThanLink>>

LStop ==
    /\ running
    /\ Stop
    /\ UNCHANGED <<histVars, pqVars, otherThanLink>>

LStart == Start /\ UNCHANGED <<histVars, pqVars, otherThanLink>>

LRunBegin == RunBegin /\ UNCHANGED <<histVars, pqVars, otherThanLink>>

LRunHead == RunHead /\ UNCHANGED <<histVars, pqVars, otherThanLink>>

LRunRemove == RunRemove /\ UNCHANGED <<histVars, pqVars, otherThanLink>>

LRunBody == \E raises \in BOOLEAN : LBody(raises)

\* The steps of the service with the frames put drawn from the given sets.
NextOn(srcs, codes, classes) ==
    \/ \E src \in srcs, mc \in codes, priority \in classes : LPut(src, mc, priority)
    \/ \E l \in {None, Listener} : LSetListener(l)
    \/ LStart
    \/ LRunBegin
    \/ LRunHead
    \/ LRunRemove
    \/ LRunBody
    \/ LStop

Next == NextOn(Addrs, LinkCodes, LinkClasses)

vars == <<linkVars, histVars, pqVars, notVars, runVars, sockVars, stopVars>>

Spec == Init /\ [][Next]_vars

\* The same service fed with L_Data.ind frames only, its worker thread being
\* scheduled: once started, each step of run() that can be taken is taken.
\* Nothing obliges the environment to put frames, set a listener or stop.
NextLive == NextOn(Addrs, {MC_LDATA_IND}, LinkClasses)

FairWorker ==
    /\ WF_vars(LRunBegin)
    /\ WF_vars(LRunHead)
    /\ WF_vars(LRunRemove)
    /\ WF_vars(LRunBody)

FairSpec == Init /\ [][NextLive]_vars /\ FairWorker

(***************************************************************************)
(* The queue specification: the inbound queue under load.  Frames of all   *)
(* four classes are put while the worker dequeues; each sub-queue holds at *)
(* most MaxQLen frames.  Two monitors follow the run:                      *)
(*  - scen/getLog: the scenario "one frame per class put in the order low, *)
(*    normal, urgent, system before any dequeue, then four dequeues";      *)
(*    scen counts the steps done, -1 once the run has left the scenario;   *)
(*  - winGot/winOk: the dequeues of the current round, per class of the    *)
(*    frame returned, and whether every class held a frame at each.        *)
(***************************************************************************)
PQDistributions == {<<1, 1, 1, 1>>, <<4, 3, 2, 1>>, <<1, 0, 0, 0>>, <<0, 0, 0, 1>>}
ScenPuts == <<Low, Normal, Urgent, System>>

InitPQ ==
    /\ \E d \in PQDistributions : LinkInit(d, OwnAddress)
    /\ NotifierInit
    /\ RunnerInit
    /\ SocketInit
    /\ NoStop
    /\ NoCallers
    /\ NoHistory
    /\ scen = 0
    /\ getLog = <<>>
    /\ winGot = [c \in Classes |-> 0]
    /\ winOk = TRUE

QPut(priority) ==
    /\ Len(inQueue.queues[priority]) < MaxQLen
    /\ PutInFrame(Frame(ForeignAddress, MC_LDATA_IND, priority, 0))
    /\ scen' = IF scen \in 0..3 /\ priority = ScenPuts[scen + 1] THEN scen + 1
               ELSE IF scen = 8 THEN 8 ELSE -1
    /\ getLog' = IF scen' = -1 THEN <<>> ELSE getLog
    /\ UNCHANGED <<winGot, winOk, histVars, otherThanLink>>

AllClassesHold(pq) == \A c \in Classes : pq.queues[c] # <<>>

QRemove ==
    /\ RunRemove
    /\ scen' = IF scen \in 4..7 THEN scen + 1 ELSE IF scen = 8 THEN 8 ELSE -1
    /\ getLog' = IF scen \in 4..7 THEN Append(getLog, cEMI'.priority)
                 ELSE IF scen = 8 THEN getLog ELSE <<>>
    /\ winOk' = IF PQRemove(inQueue).wrapped
                THEN AllClassesHold(inQueue)
                ELSE winOk /\ AllClassesHold(inQueue)
    /\ winGot' = IF ~winOk' THEN [c \in Classes |-> 0]
                 ELSE IF PQRemove(inQueue).wrapped
                 THEN [c \in Classes |-> IF c = cEMI'.priority THEN 1 ELSE 0]
                 ELSE [winGot EXCEPT ![cEMI'.priority] = @ + 1]
    /\ UNCHANGED <<histVars, otherThanLink>>

NextPQ ==
    \/ \E priority \in Classes : QPut(priority)
    \/ Start /\ UNCHANGED <<histVars, pqVars, otherThanLink>>
    \/ RunBegin /\ UNCHANGED <<histVars, pqVars, otherThanLink>>
    \/ RunHead /\ UNCHANGED <<histVars, pqVars, otherThanLink>>
    \/ QRemove
    \/ \E raises \in BOOLEAN : RunBody(raises) /\ UNCHANGED <<histVars, pqVars, otherThanLink>>

SpecPQ == InitPQ /\ [][NextPQ]_vars

(***************************************************************************)
(* The outbound specification: NCallers threads call dataReq, each once,   *)
(* with a frame of any source address; the transmit thread takes           *)
(* Transmissions with getOutFrame and may confirm them; the confirm        *)
(* timeout of a waiting call may elapse.                                   *)
(***************************************************************************)
Callers == 1..NCallers

Range(seq) == {seq[i] : i \in 1..Len(seq)}

InitOut ==
    /\ \E d \in LinkDistributions : LinkInit(d, OwnAddress)
    /\ NotifierInit
    /\ RunnerInit
    /\ SocketInit
    /\ NoStop
    /\ trans = [c \in Callers |-> NoTransmission]
    /\ cpc = [c \in Callers |-> "idle"]
    /\ ret = [c \in Callers |-> "none"]
    /\ txFrame = 0
    /\ nPut = 0
    /\ indications = <<>>
    /\ processed = <<>>
    /\ sent = <<>>
    /\ acked = {}
    /\ given = [c \in Callers |-> NoFrame]
    /\ added = <<>>
    /\ NoScenario

OGetOutFrame ==
    /\ GetOutFrame
    /\ sent' = Append(sent, txFrame')
    /\ UNCHANGED <<nPut, indications, processed, acked, given, added, pqVars, otherThanLink>>

OConfirm(c) ==
    /\ c \in Range(sent)
    /\ Confirm(c)
    /\ acked' = acked \cup {c}
    /\ UNCHANGED <<nPut, indications, processed, sent, given, added, pqVars, otherThanLink>>

ODataReq(c, frame) ==
    /\ DataReqBegin(c, frame)
    /\ given' = [given EXCEPT ![c] = frame]
    /\ UNCHANGED <<nPut, indications, processed, sent, acked, added, pqVars, otherThanLink>>

OAdd(c) ==
    /\ DataReqAdd(c)
    /\ added' = Append(added, c)
    /\ UNCHANGED <<nPut, indications, processed, sent, acked, given, pqVars, otherThanLink>>

CallerStep(c, srcs, classes) ==
    \/ \E src \in srcs, priority \in classes :
          ODataReq(c, Frame(src, MC_LDATA_REQ, priority, c))
    \/ OAdd(c)
    \/ DataReqCheck(c) /\ UNCHANGED <<histVars, pqVars, otherThanLink>>
    \/ DataReqWake(c) /\ UNCHANGED <<histVars, pqVars, otherThanLink>>
    \/ DataReqRelease(c) /\ UNCHANGED <<histVars, pqVars, otherThanLink>>
    \/ DataReqReturn(c) /\ UNCHANGED <<histVars, pqVars, otherThanLink>>

OTimeout(c) == Timeout(c) /\ UNCHANGED <<histVars, pqVars, otherThanLink>>

\* The steps of the outbound side with the frames passed to dataReq drawn
\* from the given sets.
NextOutOn(srcs, classes) ==
    \/ \E c \in Callers : CallerStep(c, srcs, classes)
    \/ OGetOutFrame
    \/ \E c \in Callers : OConfirm(c)
    \/ \E c \in Callers : OTimeout(c)

\* Adding to the outbound queue, or waiting, raises in a calling thread.
CallerFails(c) ==
    \/ DataReqAddRaises(c) /\ UNCHANGED <<histVars, pqVars, otherThanLink>>
    \/ DataReqWaitRaises(c) /\ UNCHANGED <<histVars, pqVars, otherThanLink>>

NextOut == NextOutOn(Addrs, LinkClasses)

SpecOut == InitOut /\ [][NextOut]_vars

\* The same with one kind of frame, the calling threads being scheduled and
\* the timeout of a wait elapsing; nothing obliges the transmit side to take
\* or confirm a Transmission.
NextOutLive == NextOutOn({ForeignAddress}, {Normal})

FairOut ==
    \A c \in Callers :
        /\ WF_vars(CallerStep(c, {ForeignAddress}, {Normal}))
        /\ WF_vars(OTimeout(c))

FairSpecOut == InitOut /\ [][NextOutLive]_vars /\ FairOut

\* The outbound side with one kind of frame, where adding to the queue or
\* waiting may raise.
NextOutFails ==
    \/ NextOutLive
    \/ \E c \in Callers : CallerFails(c)

SpecOutFails == InitOut /\ [][NextOutFails]_vars

(***************************************************************************)
(* The shutdown specification: the outbound side as in FairSpecOut while   *)
(* the worker thread is started, runs and stop() is called on the running  *)
(* service.  No frame arrives, so the worker finds its queue empty.        *)
(***************************************************************************)
NextShutdown ==
    \/ NextOutLive
    \/ LStart
    \/ LRunBegin
    \/ LRunHead
    \/ LStop

FairSpecShutdown ==
    InitOut /\ [][NextShutdown]_vars /\ FairOut /\ WF_vars(LRunBegin) /\ WF_vars(LRunHead)

(***************************************************************************)
(* The Notifier specification: handlers are declared, functional blocks    *)
(* are registered, also repeatedly, and datapoints notify their changes,   *)
(* in any order.                                                           *)
(***************************************************************************)
InitNotifier ==
    /\ LinkInit(<<4, 3, 2, 1>>, OwnAddress)
    /\ NoCallers
    /\ NoHistory
    /\ NoScenario
    /\ NotifierInit
    /\ RunnerInit
    /\ SocketInit
    /\ NoStop

NAddDatapointJob(func, dp, condition, thread) ==
    AddDatapointJob(func, dp, condition, thread) /\ UNCHANGED otherThanNotifier

NDoRegisterJobs(obj) == DoRegisterJobs(obj) /\ UNCHANGED otherThanNotifier

\* The functions behind the handlers kept for (obj, dp).
HandlersOf(obj, dp) ==
    {meth_func(jobsFor(datapointJobs, obj, dp)[i][1]) :
        i \in 1..Len(jobsFor(datapointJobs, obj, dp))}

\* A datapoint of obj notifies; any of the handlers called may raise.
NDatapointNotify(obj, dp, oldValue, newValue) ==
    \E raising \in SUBSET HandlersOf(obj, dp) :
        /\ DatapointNotify(obj, dp, oldValue, newValue, raising)
        /\ UNCHANGED otherThanNotifier

NextNotifier ==
    \/ \E func \in Funcs, dp \in DPs, condition \in Conditions, thread \in BOOLEAN :
          NAddDatapointJob(func, dp, condition, thread)
    \/ \E obj \in Objs : NDoRegisterJobs(obj)
    \/ \E obj \in Objs, dp \in DPs, oldValue \in Values, newValue \in Values :
          NDatapointNotify(obj, dp, oldValue, newValue)

SpecNotifier == InitNotifier /\ [][NextNotifier]_vars

(***************************************************************************)
(* The weave specification: the same three calls for two instances of one  *)
(* functional-block class and one of another, whose classes both define a  *)
(* method h; every handler is declared with thread=False and no handler    *)
(* raises.                                                                 *)
(***************************************************************************)
WDatapointNotify(obj, dp, newValue) ==
    DatapointNotify(obj, dp, 0, newValue, {}) /\ UNCHANGED otherThanNotifier

NextWeave ==
    \/ \E func \in {<<"A", "h">>, <<"B", "h">>}, dp \in DPs,
            condition \in {"change", "never"} :
          NAddDatapointJob(func, dp, condition, FALSE)
    \/ \E obj \in Instances : NDoRegisterJobs(obj)
    \/ \E obj \in Instances, dp \in DPs, newValue \in Values :
          WDatapointNotify(obj, dp, newValue)

SpecWeave == InitNotifier /\ [][NextWeave]_vars

(***************************************************************************)
(* The DeviceRunner specification: check() and run() are called, at most   *)
(* MaxRuns times in all, and at most one of the calls they make raises.    *)
(***************************************************************************)
InitRunner ==
    /\ LinkInit(<<4, 3, 2, 1>>, OwnAddress)
    /\ NoCallers
    /\ NoHistory
    /\ NoScenario
    /\ NotifierInit
    /\ RunnerInit
    /\ SocketInit
    /\ NoStop

Raisings == {{}} \cup {{step} : step \in Steps}

RCheck(printGroat, raising) == Check(printGroat, raising) /\ UNCHANGED otherThanRunner

RRun(daemon, raising, interrupt) ==
    Run(daemon, raising, interrupt) /\ UNCHANGED otherThanRunner

NextRunner ==
    \/ \E printGroat \in BOOLEAN, raising \in Raisings : RCheck(printGroat, raising)
    \/ \E daemon \in BOOLEAN, raising \in Raisings, interrupt \in BOOLEAN :
          RRun(daemon, raising, interrupt)

SpecRunner == InitRunner /\ [][NextRunner]_vars

(***************************************************************************)
(* The socket specification: transmit() is called, at most MaxSends times, *)
(* with data of up to MaxData bytes, and receive() at most MaxReceives     *)
(* times.                                                                  *)
(***************************************************************************)
InitSocket ==
    /\ LinkInit(<<4, 3, 2, 1>>, OwnAddress)
    /\ NoCallers
    /\ NoHistory
    /\ NoScenario
    /\ NotifierInit
    /\ RunnerInit
    /\ SocketInit
    /\ NoStop

STransmit(data, l) == Transmit(data, l) /\ UNCHANGED otherThanSocket

STransmitRaises(data) == TransmitRaises(data) /\ UNCHANGED otherThanSocket

SReceive(recvfrom) == Receive(recvfrom) /\ UNCHANGED otherThanSocket

NextSocket ==
    \/ \E data \in 0..MaxData : \E l \in 0..data : STransmit(data, l)
    \/ \E data \in 0..MaxData : STransmitRaises(data)
    \/ \E recvfrom \in RecvOutcomes : SReceive(recvfrom)

SpecSocket == InitSocket /\ [][NextSocket]_vars

(***************************************************************************)
(* The stop specification: the service is started once, frames of other    *)
(* devices arrive, and stop() is called at any moment after start() has    *)
(* returned, be it before run() has executed its first statement.          *)
(***************************************************************************)
LStopAfterStart ==
    /\ pc # "new"
    /\ Stop
    /\ stopCalled' = TRUE
    /\ UNCHANGED <<histVars, pqVars, notVars, runVars, sockVars>>

NextStop ==
    \/ \E priority \in LinkClasses : LPut(ForeignAddress, MC_LDATA_IND, priority)
    \/ \E l \in {None, Listener} : LSetListener(l)
    \/ LStart
    \/ LRunBegin
    \/ LRunHead
    \/ LRunRemove
    \/ LRunBody
    \/ LStopAfterStart

SpecStop == Init /\ [][NextStop]_vars

(***************************************************************************)
(* Claims about the link worker (specification Spec).                      *)
(***************************************************************************)

\* C1: loop suppression. No frame whose source address is the service's own
\* individual address is ever passed to the listener's dataInd, whatever its
\* message code and priority: the worker drops it.
C1_LoopSuppression ==
    /\ \A i \in 1..Len(indications) :
          indications[i].sourceAddress # individualAddress
    /\ upcall.did # "nothing" /\ upcall.frame.sourceAddress = individualAddress
          => upcall.did = "drop"

\* The worker has just handled an L_Data.ind frame carrying the own address
\* while a listener was set.
C1_Witness ==
    /\ upcall.did # "nothing"
    /\ upcall.frame.sourceAddress = individualAddress
    /\ upcall.frame.messageCode = MC_LDATA_IND
    /\ ldl = Listener
    /\ Len(indications) > 0

\* C7: inbound FIFO within a priority class. Frames of the same priority are
\* passed to dataInd in the order they were put (ids number the puts), also
\* when frames of other classes were put between them.
C7_FifoWithinClass ==
    \A i, j \in 1..Len(indications) :
        i < j /\ indications[i].priority = indications[j].priority
            => indications[i].id < indications[j].id

\* Two frames of one class were delivered, and a frame of another class that
\* was put between them has been handled too.
C7_Witness ==
    \E i, j \in 1..Len(indications) :
        /\ i < j
        /\ indications[i].priority = indications[j].priority
        /\ indications[j].id = indications[i].id + 2
        /\ \E k \in 1..Len(processed) :
              /\ processed[k].id = indications[i].id + 1
              /\ processed[k].priority # indications[i].priority

\* C11: only indications go upward. A frame taken from the inbound queue whose
\* message code is not L_Data.ind is never passed to dataInd, whatever its
\* source: the loop body drops it without raising, no frame is lost on the
\* way, and the worker ends only once stop() has cleared the running flag.
QueuedFrames == PQSize(inQueue) + (IF pc = "body" THEN 1 ELSE 0)

C11_OnlyIndications ==
    /\ \A i \in 1..Len(indications) : indications[i].messageCode = MC_LDATA_IND
    /\ upcall.frame.messageCode \in {MC_LDATA_CON, MC_LDATA_REQ} =>
           upcall.did = "drop" /\ ~upcall.logged
    /\ Len(processed) + QueuedFrames = nPut
    /\ pc = "ended" => ~running

\* A foreign frame that is no indication was handled, and a frame handled
\* after it was passed to dataInd.
C11_Witness ==
    \E k, j \in 1..Len(processed) :
        /\ k < j
        /\ processed[k].messageCode # MC_LDATA_IND
        /\ processed[k].sourceAddress # individualAddress
        /\ \E i \in 1..Len(indications) : indications[i].id = processed[j].id

\* C10: inbound delivery. While the worker runs and a listener is set, every
\* L_Data.ind frame of a foreign source put on the inbound queue is eventually
\* passed to dataInd, and no frame is passed twice.
\* As claimed, for every frame:
QueuedInd(id) ==
    \E p \in Classes : \E i \in 1..Len(inQueue.queues[p]) :
        /\ inQueue.queues[p][i].id = id
        /\ inQueue.queues[p][i].sourceAddress # individualAddress
        /\ inQueue.queues[p][i].messageCode = MC_LDATA_IND

Delivered(id) == \E i \in 1..Len(indications) : indications[i].id = id

NeverTwice ==
    \A i, j \in 1..Len(indications) : i < j => indications[i].id # indications[j].id

C10_AsClaimed ==
    /\ \A id \in 1..MaxIn :
          (QueuedInd(id) /\ running /\ ldl = Listener)
              ~> (Delivered(id) \/ ~running \/ ldl = None)
    /\ []NeverTwice

\* C10 as amended: the same for every frame whose priority class has a
\* non-zero share in the priority distribution.
QueuedIndServed(id) ==
    \E p \in Classes : \E i \in 1..Len(inQueue.queues[p]) :
        /\ inQueue.queues[p][i].id = id
        /\ inQueue.queues[p][i].sourceAddress # individualAddress
        /\ inQueue.queues[p][i].messageCode = MC_LDATA_IND
        /\ inQueue.distribution[inQueue.queues[p][i].priority] > 0

C10_InboundDelivery ==
    /\ \A id \in 1..MaxIn :
          (QueuedIndServed(id) /\ running /\ ldl = Listener)
              ~> (Delivered(id) \/ ~running \/ ldl = None)
    /\ []NeverTwice

\* Two foreign frames of different classes were delivered while the worker
\* kept running with its listener.
C10_Witness ==
    /\ running
    /\ ldl = Listener
    /\ \E i, j \in 1..Len(indications) :
          /\ indications[i].priority # indications[j].priority
          /\ indications[i].id > indications[j].id

(***************************************************************************)
(* Claims about the order of dequeues (specification SpecPQ).              *)
(***************************************************************************)

\* C8: priority order across classes. With distribution [1,1,1,1] and one
\* frame per class put in the order low, normal, urgent, system before any
\* dequeue, the four dequeues return system, urgent, normal, low.
C8_PriorityOrder ==
    inQueue.distribution = <<1, 1, 1, 1>> /\ scen = 8
        => getLog = <<System, Urgent, Normal, Low>>

C8_Witness ==
    inQueue.distribution = <<1, 1, 1, 1>> /\ scen = 8

\* C9: weighted round-robin. While no class is empty, the s+u+n+l dequeues
\* of a round return exactly s system, u urgent, n normal and l low frames;
\* with [4,3,2,1] that is 4, 3, 2 and 1 of the ten.
RoundShare(d) == d[System] + d[Urgent] + d[Normal] + d[Low]

C9_WeightedRoundRobin ==
    /\ winOk => \A c \in Classes : winGot[c] <= inQueue.distribution[c]
    /\ winOk /\ RoundShare(winGot) = RoundShare(inQueue.distribution)
          => \A c \in Classes : winGot[c] = inQueue.distribution[c]

C9_Witness ==
    /\ inQueue.distribution = <<4, 3, 2, 1>>
    /\ winOk
    /\ RoundShare(winGot) = 10

(***************************************************************************)
(* Claims about dataReq (specifications SpecOut and FairSpecOut).          *)
(***************************************************************************)

\* C5: dataReq stamps the source. Every Transmission on the outbound queue,
\* and every one getOutFrame has returned, carries a frame whose source
\* address is the service's own individual address.
C5_DataReqStampsSource ==
    /\ \A p \in Classes : \A i \in 1..Len(outQueue.queues[p]) :
          trans[outQueue.queues[p][i]].frame.sourceAddress = individualAddress
    /\ \A c \in Range(sent) : trans[c].frame.sourceAddress = individualAddress

\* getOutFrame has returned the Transmission of a frame whose source address
\* was another one when the caller passed it to dataReq, while the
\* Transmission of another such frame is still queued.
C5_Witness ==
    /\ txFrame # 0
    /\ given[txFrame].sourceAddress # individualAddress
    /\ \E c \in Callers, p \in Classes :
          /\ c \in Range(outQueue.queues[p])
          /\ given[c].sourceAddress # individualAddress

\* C6: confirm timeout. A dataReq call always returns, and a call whose
\* Transmission was never confirmed returns the timeout result (a return
\* value: the call reaches its return statement).
C6_Returns ==
    \A c \in Callers : (cpc[c] = "add") ~> (cpc[c] = "done")

C6_TimeoutResult ==
    \A c \in Callers : cpc[c] = "done" /\ c \notin acked => ret[c] = "timeout"

C6_ConfirmTimeout == C6_Returns /\ []C6_TimeoutResult

\* A call has returned although its Transmission never left the outbound queue.
C6_Witness ==
    \E c \in Callers :
        /\ cpc[c] = "done"
        /\ c \notin Range(sent)
        /\ ret[c] = "timeout"

\* The Transmissions waiting in the outbound queue, by caller.
Queued == UNION {Range(outQueue.queues[p]) : p \in Classes}

Position(seq, x) == CHOOSE i \in 1..Len(seq) : seq[i] = x

\* C17: outbound queue under concurrent producers. Every Transmission added
\* is either still queued or was returned by getOutFrame, once; getOutFrame
\* returns nothing that was not added; and Transmissions of one priority class
\* are returned in the order of their adds.
C17_OutboundQueue ==
    /\ \A i, j \in 1..Len(sent) : sent[i] = sent[j] => i = j
    /\ Range(sent) \cup Queued = Range(added)
    /\ Range(sent) \cap Queued = {}
    /\ PQSize(outQueue) + Len(sent) = Len(added)
    /\ \A i, j \in 1..Len(sent) :
          (i < j /\ trans[sent[i]].frame.priority = trans[sent[j]].frame.priority) =>
              Position(added, sent[i]) < Position(added, sent[j])

\* Two Transmissions of one class, added by threads whose calls overlap (both
\* are still waiting), were returned by getOutFrame.
C17_Witness ==
    \E i, j \in 1..Len(sent) :
        /\ i < j
        /\ trans[sent[i]].frame.priority = trans[sent[j]].frame.priority
        /\ cpc[sent[i]] = "wait"
        /\ cpc[sent[j]] = "wait"

\* C18: Transmission ownership. A dataReq call holds the lock of its own
\* Transmission from before the add until its finally clause, lending it only
\* inside wait(); the lock is free once the call has left, on every path, an
\* add or a wait that raised included; and a call leaves the wait loop
\* normally only when its own Transmission is resolved, by its own
\* confirmation or by its timeout.
C18_TransmissionOwnership ==
    \A c \in Callers :
        /\ cpc[c] \in {"add", "check", "release"} => trans[c].owner = "caller"
        /\ cpc[c] = "add" => c \notin Range(added)
        /\ cpc[c] \in {"wait", "return", "done"} => trans[c].owner = "free"
        /\ (cpc[c] \in {"release", "return", "done"} /\ ret[c] \notin {"raising", "raised"})
               => ~trans[c].waitConfirm
        /\ trans[c].result = "ok" <=> c \in acked
        /\ c \in acked => c \in Range(sent)

\* One call has left with an exception, its lock free, while another, whose
\* Transmission was confirmed, has returned ok.
C18_Witness ==
    \E c, d \in Callers :
        /\ cpc[c] = "done" /\ ret[c] = "raised" /\ trans[c].owner = "free"
        /\ cpc[d] = "done" /\ ret[d] = "ok" /\ d \in acked

(***************************************************************************)
(* Claims about stopping the service (specifications FairSpecShutdown and  *)
(* FairSpec).                                                              *)
(***************************************************************************)
\* stop() was called on the running service: run() had set the flag, and it
\* is cleared.
StoppedWhileRunning == ~running /\ pc \in {"head", "remove", "body", "ended"}

\* C12: stop unblocks waiters. After the service is stopped, every dataReq
\* caller still waiting for a confirmation eventually returns, and the result
\* of its Transmission is cancelled.
C12_StopUnblocksWaiters ==
    \A c \in Callers :
        (StoppedWhileRunning /\ cpc[c] = "wait" /\ trans[c].waitConfirm)
            ~> (cpc[c] = "done" /\ ret[c] = "cancelled")

\* The worker's last pass through the loop body ended in an exception raised
\* by dataInd, or found no listener.
Faulted == upcall.logged \/ upcall.did = "warning"

\* The worker leaves the loop body for the loop head, the flag untouched.
BodyStep == pc = "body" /\ pc' # "body" => pc' = "head" /\ running' = running

\* C19: the link worker survives upward errors. An exception raised by
\* dataInd, or the absence of a listener, does not end the worker thread and
\* does not change the running flag; frames queued afterwards are still
\* dequeued and delivered.
\* As claimed, for every frame:
C19_AsClaimed ==
    /\ [][BodyStep]_vars
    /\ [](Faulted /\ pc = "ended" => ~running)
    /\ \A id \in 1..MaxIn :
          (Faulted /\ QueuedInd(id) /\ running /\ ldl = Listener)
              ~> (Delivered(id) \/ ~running \/ ldl = None)

\* C19 as amended: the same for every frame whose priority class has a
\* non-zero share in the priority distribution.
C19_WorkerSurvives ==
    /\ [][BodyStep]_vars
    /\ [](Faulted /\ pc = "ended" => ~running)
    /\ \A id \in 1..MaxIn :
          (Faulted /\ QueuedIndServed(id) /\ running /\ ldl = Listener)
              ~> (Delivered(id) \/ ~running \/ ldl = None)

\* A frame found no listener, a later one was delivered, and the last one
\* made dataInd raise: the worker is back at the loop head, still running.
C19_Witness ==
    /\ running
    /\ pc = "head"
    /\ upcall.logged
    /\ \E k, j \in 1..Len(processed) :
          /\ k < j
          /\ processed[k].sourceAddress # individualAddress
          /\ ~Delivered(processed[k].id)
          /\ Delivered(processed[j].id)
          /\ processed[j].id # upcall.frame.id

\* C13: cooperative cancellation. After stop() is called on the running
\* service, the worker loop eventually sees the cleared flag and ends, whether
\* or not a further frame is put on the inbound queue.
C13_WorkerTerminates == StoppedWhileRunning ~> (pc = "ended")

\* C25: stop is never lost. Once stop() has been called after start() had
\* returned, the running flag is false in every later state, whatever the
\* interleaving of the call with the beginning of run().
C25_StopIsNeverLost == stopCalled => ~running

(***************************************************************************)
(* Claims about the Notifier (specification SpecNotifier).  They are       *)
(* stated on the state a datapointNotify call leaves: its arguments, the   *)
(* calls it made and the exceptions it logged.                             *)
(***************************************************************************)
NotifiedJobs == jobsFor(datapointJobs, notifyArgs[1], notifyArgs[2])

\* The number of calls made for a handler kept as (method, condition, thread).
Calls(job) ==
    Cardinality({i \in 1..Len(invoked) :
                    /\ invoked[i][1] = job[1]
                    /\ invoked[i][2].condition = job[2]
                    /\ invoked[i][2].thread = job[3]})

ShouldFire(job) ==
    \/ job[2] = "change" /\ notifyArgs[3] # notifyArgs[4]
    \/ job[2] = "always"

\* C2: notification condition. datapointNotify(fb, dp, old, new) invokes a
\* handler registered for (fb, dp) if and only if its condition is "change"
\* and old differs from new, or its condition is "always".
C2_NotificationCondition ==
    notifyArgs # <<>> =>
        \A k \in 1..Len(NotifiedJobs) :
            Calls(NotifiedJobs[k]) > 0 <=> ShouldFire(NotifiedJobs[k])

\* The handler kept as (method, condition, thread) was called on that thread.
RanOn(job, on) ==
    \E i \in 1..Len(invoked) :
        /\ invoked[i][1] = job[1]
        /\ invoked[i][2].condition = job[2]
        /\ invoked[i][2].thread = job[3]
        /\ invoked[i][3] = on

\* C14: threaded handlers. For a datapointNotify whose condition test passes,
\* a handler registered with thread=True is invoked on a worker of its own,
\* and a handler registered with thread=False has run on the caller's thread
\* when datapointNotify returns.
C14_ThreadedHandlers ==
    notifyArgs # <<>> =>
        \A k \in 1..Len(NotifiedJobs) :
            ShouldFire(NotifiedJobs[k]) =>
                RanOn(NotifiedJobs[k], IF NotifiedJobs[k][3] THEN "worker" ELSE "caller")

\* No function is declared twice as a handler of the same datapoint.
DeclaredOnce ==
    \A i, j \in 1..Len(pendingFuncs) :
        i < j => ~(/\ pendingFuncs[i][2] = pendingFuncs[j][2]
                   /\ pendingFuncs[i][3][1] = pendingFuncs[j][3][1])

\* C3: handler isolation. When a handler raises during datapointNotify, the
\* exception does not reach the caller, and every other handler registered
\* for the same (fb, dp) whose condition holds is still invoked (stated for
\* handlers that are different functions).
C3_HandlerIsolation ==
    (notifyArgs # <<>> /\ DeclaredOnce /\ "Notifier._execute()" \in Range(exceptions)) =>
        /\ error = "none"
        /\ \A k \in 1..Len(NotifiedJobs) :
              ShouldFire(NotifiedJobs[k]) => Calls(NotifiedJobs[k]) > 0

\* C4: exactly-once delivery per handler. Whatever the declarations,
\* registrations (repeated ones included) and notifications so far, one
\* datapointNotify call invokes each handler at most once.
C4_AtMostOncePerHandler ==
    (notifyArgs # <<>> /\ DeclaredOnce) =>
        \A i, j \in 1..Len(invoked) : invoked[i][1] = invoked[j][1] => i = j

\* The number of entries of a handler list kept for that method.
Entries(jobs, method) == Cardinality({k \in 1..Len(jobs) : jobs[k][1] = method})

\* The method was registered once as a handler of every datapoint of obj: it
\* was decorated for each of them.
Stacked(obj, method) ==
    \A dp \in DPs : Entries(jobsFor(datapointJobs, obj, dp), method) = 1

\* C28: stacked declarations. When one method was decorated for several
\* datapoints and its instance registered, a notification of any one of them
\* whose condition test passes invokes the method exactly once, with event.dp
\* the datapoint notified and oldValue / newValue the values passed.
C28_StackedDeclarations ==
    notifyArgs # <<>> =>
        \A k \in 1..Len(NotifiedJobs) :
            (Stacked(notifyArgs[1], NotifiedJobs[k][1]) /\ ShouldFire(NotifiedJobs[k])) =>
                /\ Cardinality({i \in 1..Len(invoked) :
                                   invoked[i][1] = NotifiedJobs[k][1]}) = 1
                /\ \A i \in 1..Len(invoked) :
                      invoked[i][1] = NotifiedJobs[k][1] =>
                          /\ invoked[i][2].dp = notifyArgs[2]
                          /\ invoked[i][2].oldValue = notifyArgs[3]
                          /\ invoked[i][2].newValue = notifyArgs[4]

(***************************************************************************)
(* Claims about the DeviceRunner (specification SpecRunner).  An entry of  *)
(* runs is <<operation, argument, raising, interrupt, calls, exception,    *)
(* messages>>.                                                             *)
(***************************************************************************)
Lifecycle ==
    <<"DEVICE", "ets.register", "ets.weave", "device.start", "Scheduler.start",
      "device.mainLoop", "Scheduler.stop", "device.stop", "device.shutdown">>

IsStage(step) == step # "_doubleFork"

\* C15: device lifecycle order. Every run() in which no call on the device,
\* the registry or the scheduler fails goes through created, registered,
\* woven, running, stopping and stopped in that order, none skipped and none
\* repeated.
C15_LifecycleOrder ==
    \A i \in 1..Len(runs) :
        (runs[i][1] = "run" /\ runs[i][3] = {}) =>
            SelectSeq(runs[i][5], IsStage) = Lifecycle

\* C16: configuration errors precede start. If check() fails, by creating,
\* registering or weaving, run() raises that error to its caller and calls
\* neither device.start nor Scheduler.start nor mainLoop.
C16_ConfigErrorsPrecedeStart ==
    \A i \in 1..Len(runs) :
        (runs[i][1] = "run" /\ check(FALSE, runs[i][3])[2] # "none") =>
            /\ runs[i][6] = check(FALSE, runs[i][3])[2]
            /\ Range(runs[i][5]) \cap {"device.start", "Scheduler.start", "device.mainLoop"}
                   = {}

\* A run() in which creating the device failed, after a run() in which it
\* did not.
C16_Witness ==
    \E i, j \in 1..Len(runs) :
        /\ i < j
        /\ runs[i][1] = "run" /\ runs[i][3] = {} /\ runs[i][6] # "none"
        /\ runs[j][1] = "run" /\ runs[j][3] = {"DEVICE"} /\ runs[j][6] = "raised"

(***************************************************************************)
(* Claims about the multicast sockets (specification SpecSocket).          *)
(***************************************************************************)

\* C20: partial send is an error. transmit(data) raises whenever sendto
\* reports fewer bytes than len(data), and returns normally when it reports
\* len(data).
C20_PartialSendIsError ==
    \A i \in 1..Len(sends) :
        sends[i][2] >= 0 =>
            /\ sends[i][2] < sends[i][1] => sends[i][3] # "none"
            /\ sends[i][2] = sends[i][1] => sends[i][3] = "none"

\* C21: receive timeout is not an error. When no datagram arrives within
\* the receive socket's timeout, receive() raises nothing and returns an
\* empty read to its caller.
C21_TimeoutIsNotAnError ==
    \A i \in 1..Len(receives) :
        receives[i][1] = "socket.timeout" =>
            /\ receives[i][3] = "none"
            /\ receives[i][2] = NoRead

(***************************************************************************)
(* Claims about declaring, registering and routing handlers (specification *)
(* SpecWeave).  lastCall names the call a step has made.                   *)
(***************************************************************************)

\* C22: invalid condition rejected. addDatapointJob called with a condition
\* other than "change" or "always" raises NotifierValueError and leaves the
\* pending-declaration list and the handler table unchanged; with a valid
\* condition it raises nothing and appends exactly one pending declaration,
\* the one it was called with.
C22_InvalidConditionRejected ==
    [][lastCall'[1] = "addDatapointJob" =>
          /\ datapointJobs' = datapointJobs
          /\ IF lastCall'[4] \in {"change", "always"}
             THEN /\ error' = "none"
                  /\ pendingFuncs' =
                         Append(pendingFuncs,
                                <<"datapoint", lastCall'[2],
                                  <<lastCall'[3], lastCall'[4], lastCall'[5]>>>>)
             ELSE /\ error' = "NotifierValueError"
                  /\ pendingFuncs' = pendingFuncs]_vars

\* An invalid declaration was refused after a valid one had been made and
\* registered.
C22_Witness ==
    /\ lastCall # <<>>
    /\ lastCall[1] = "addDatapointJob"
    /\ lastCall[4] = "never"
    /\ error = "NotifierValueError"
    /\ Len(pendingFuncs) = 1
    /\ datapointJobs # EmptyDict

\* The methods registered as handlers of datapoint dp of instance obj.
RegisteredFor(obj, dp) ==
    IF obj \in DOMAIN datapointJobs /\ dp \in DOMAIN datapointJobs[obj]
    THEN {datapointJobs[obj][dp][k][1] : k \in 1..Len(datapointJobs[obj][dp])}
    ELSE {}

\* C23: notification routing. datapointNotify(fb, dp, old, new) invokes only
\* handlers registered for that instance and that datapoint, each a method
\* bound to fb and called with an event of dp; a notification for an
\* (fb, dp) with no registered handler invokes nothing and raises nothing.
C23_NotificationRouting ==
    notifyArgs # <<>> =>
        /\ \A i \in 1..Len(invoked) :
              /\ invoked[i][1] \in RegisteredFor(notifyArgs[1], notifyArgs[2])
              /\ meth_self(invoked[i][1]) = notifyArgs[1]
              /\ invoked[i][2].dp = notifyArgs[2]
        /\ RegisteredFor(notifyArgs[1], notifyArgs[2]) = {} =>
              /\ invoked = <<>>
              /\ exceptions = <<>>
              /\ error = "none"

\* A change of dp1 of a1 was notified and invoked one handler, while a2, of
\* the same class, has a handler for dp1 too and a1 has one for dp2.
C23_Witness ==
    /\ notifyArgs = <<"a1", "dp1", 0, 1>>
    /\ Len(invoked) = 1
    /\ RegisteredFor("a2", "dp1") # {}
    /\ RegisteredFor("a1", "dp2") # {}

\* The handlers a table keeps for datapoint dp of instance obj, in order.
HandlersIn(jobs, obj, dp) ==
    IF obj \in DOMAIN jobs /\ dp \in DOMAIN jobs[obj] THEN jobs[obj][dp] ELSE <<>>

HandlerList(obj, dp) == HandlersIn(datapointJobs, obj, dp)

\* Function func is pending as a handler of dp with that condition and flag.
IsDeclared(func, dp, condition, thread) ==
    \E i \in 1..Len(pendingFuncs) :
        pendingFuncs[i] = <<"datapoint", func, <<dp, condition, thread>>>>

\* What a doRegisterJobs(obj) step may do to the handlers of obj's datapoint
\* dp: keep those it had and append methods of obj resolved from the
\* declarations for dp.
OnlyResolvedAdded(obj, dp, old, new) ==
    /\ Len(new) >= Len(old)
    /\ \A k \in 1..Len(new) :
          IF k <= Len(old)
          THEN new[k] = old[k]
          ELSE /\ IsDeclared(meth_func(new[k][1]), dp, new[k][2], new[k][3])
               /\ meth_self(new[k][1]) = obj
               /\ new[k][1] = getattr(obj, func_name(meth_func(new[k][1])))
               /\ meth_func(new[k][1])[1] = ClassOf(obj)

\* C27: handler resolution avoids name clashes. doRegisterJobs(obj) leaves
\* the pending declarations and the handlers of every other instance
\* unchanged, and only adds handlers to obj: each handler added for a
\* datapoint is the attribute of obj under the name of a function declared
\* for that datapoint, and is a method bound to obj of that very function,
\* so that a same-named method of another class is never registered for it
\* and a datapoint with no such declaration keeps its handlers.
C27_HandlerResolution ==
    [][lastCall'[1] = "doRegisterJobs" =>
          /\ pendingFuncs' = pendingFuncs
          /\ \A o \in Instances \ {lastCall'[2]}, dp \in DPs :
                HandlersIn(datapointJobs', o, dp) = HandlersIn(datapointJobs, o, dp)
          /\ \A dp \in DPs :
                OnlyResolvedAdded(lastCall'[2], dp,
                                  HandlersIn(datapointJobs, lastCall'[2], dp),
                                  HandlersIn(datapointJobs', lastCall'[2], dp))]_vars

\* a1 was registered while a method h of its class A was declared for dp1
\* and the same-named method of class B for dp2, b1 being registered
\* already: a1 has a handler for dp1 and none for dp2.
C27_Witness ==
    /\ lastCall = <<"doRegisterJobs", "a1">>
    /\ IsDeclared(<<"A", "h">>, "dp1", "change", FALSE)
    /\ IsDeclared(<<"B", "h">>, "dp2", "change", FALSE)
    /\ HandlerList("a1", "dp1") # <<>>
    /\ HandlerList("a1", "dp2") = <<>>
    /\ HandlerList("b1", "dp2") # <<>>

====
